---------------------------- MODULE Spec2Model ----------------------------
(***************************************************************************)
(* Model of the flask_blog_app exercise repository:                        *)
(*   - test_summary.py    main(): raw_results.json -> output.json          *)
(*   - create_output.py   module body: raw_results.json -> output.json     *)
(*   - generate_report.py main(): runs pytest, writes output.json          *)
(*   - run_test.py        main(): install, test, report, exit              *)
(*   - models.py          User / Post and the relationship between them    *)
(* Files on disk, the module-level SUMMARY_TEMPLATE of a running Python    *)
(* process and the database tables are the state; one action per script    *)
(* run, per main() call, per run_command step and per session operation.   *)
(***************************************************************************)
EXTENDS Integers, Sequences, FiniteSets

VARIABLES
    rawFile,    \* content of raw_results.json
    outFile,    \* content of output.json
    proc,       \* the Python process that is running: "none" or a script name
    template,   \* SUMMARY_TEMPLATE of the running test_summary process
    calls,      \* main() calls made so far in the running test_summary process
    runs,       \* the last script runs made on the current raw_results.json
                \* since run_test was last started
    pc,         \* run_test.main: the step it is about to make ("none": not running)
    result,     \* run_test.main: result.returncode of the test step (-1: not run)
    steps,      \* run_test.main: the run_command steps made so far, in order
    users,      \* rows of table user
    posts,      \* rows of table post
    lastOp,     \* the last session.commit(): what it did and how it ended
    clock,      \* the reading datetime.utcnow() gives now, in ticks
    defaulted,  \* ids of the stored posts whose timestamp the column default set
    raw_path,   \* generate_output: content of the file that argv[1] names
    out_path,   \* generate_output: content of the file that argv[2] names
    lastOutput  \* the last run of generate_output on the current raw_path

runVars == <<pc, result, steps>>
dbVars == <<users, posts, lastOp, clock, defaulted>>
goVars == <<raw_path, out_path, lastOutput>>
vars == <<rawFile, outFile, proc, template, calls, runs, runVars, dbVars, goVars>>

----------------------------------------------------------------------------
(* Bounds of the model. *)

\* a raw report counts at most MaxCount tests
MaxCount == 1
\* main() is called at most MaxCalls times in one test_summary process
MaxCalls == 2
\* table user holds at most MaxUsers rows
MaxUsers == 2
\* table post hands out the ids 1..MaxPostId
MaxPostId == 2
\* the clock reads 0..MaxClock
MaxClock == 2
\* the 'tests' sequence of a raw report holds at most MaxTests records
MaxTests == 2

----------------------------------------------------------------------------
(* JSON values of the count fields.  t is the JSON type; "absent" stands   *)
(* for a key that is not in the mapping.  A "float" is n + 0.5.            *)

JInt(n) == [t |-> "int", n |-> n]
JStr == [t |-> "str", n |-> 0]
JNull == [t |-> "null", n |-> 0]
JFloat == [t |-> "float", n |-> 0]
JAbsent == [t |-> "absent", n |-> 0]

CountInts == {JInt(n) : n \in 0..MaxCount}
NonInts == {JStr, JNull, JFloat}
Fields == {"total", "passed", "failed", "skipped"}

\* dict.get(key, default): the default only when the key is absent
\* (a key that is present with value null yields None).
Get(v, default) == IF v.t = "absent" THEN default ELSE v

\* Python's  v > 0 : defined on int and float, TypeError on str and None.
Comparable(v) == v.t \in {"int", "float"}
GreaterThanZero(v) == IF v.t = "int" THEN v.n > 0 ELSE v.t = "float"

----------------------------------------------------------------------------
(* raw_results.json.  kind: "absent" (no such file), "invalid" (not JSON), *)
(* "array" (JSON whose top level is not a mapping), "object".  skind is    *)
(* the 'summary' key of an object: "absent", "nonmap" (present, but not a  *)
(* mapping) or "object", and then the four fields are its count keys.      *)

Raw(kind, skind, t, p, f, s) ==
    [kind |-> kind, skind |-> skind, total |-> t, passed |-> p, failed |-> f,
     skipped |-> s]

NoRawFile == Raw("absent", "absent", JAbsent, JAbsent, JAbsent, JAbsent)
InvalidJson == Raw("invalid", "absent", JAbsent, JAbsent, JAbsent, JAbsent)
TopLevelArray == Raw("array", "absent", JAbsent, JAbsent, JAbsent, JAbsent)
NoSummaryKey == Raw("object", "absent", JAbsent, JAbsent, JAbsent, JAbsent)
SummaryNotMapping == Raw("object", "nonmap", JAbsent, JAbsent, JAbsent, JAbsent)

\* a summary mapping with the four count keys t, p, f, s
Summary(t, p, f, s) == Raw("object", "object", t, p, f, s)

\* the summary with key k absent and every other count 1
OneAbsent(k) == [Summary(JInt(1), JInt(1), JInt(1), JInt(1)) EXCEPT ![k] = JAbsent]

\* summaries of four integer counts, as a test run of at most MaxCount tests
\* yields them: the outcomes passed, failed and skipped (and error, which no
\* script reads) add up to total
CountedReports ==
    {r \in {Summary(t, p, f, s) : t \in CountInts, p \in CountInts,
                                  f \in CountInts, s \in CountInts} :
        r.passed.n + r.failed.n + r.skipped.n <= r.total.n}

\* reports of the documented shape: no 'summary' key, an empty summary, a
\* summary with one key absent, and the counted ones
ValidReports ==
    {NoSummaryKey, Summary(JAbsent, JAbsent, JAbsent, JAbsent)} \cup
    {OneAbsent(k) : k \in Fields} \cup CountedReports

\* reports with one count that is not an integer, every other key absent
OneNonInt(k, v) ==
    [Summary(JAbsent, JAbsent, JAbsent, JAbsent) EXCEPT ![k] = v]
NonIntReports ==
    {OneNonInt("failed", v) : v \in NonInts} \cup
    {OneNonInt("total", JStr), OneNonInt("passed", JNull),
     OneNonInt("skipped", JFloat)}

MalformedReports ==
    {InvalidJson, TopLevelArray, SummaryNotMapping} \cup NonIntReports

RawReports == ValidReports \cup MalformedReports

----------------------------------------------------------------------------
(* test_summary.py *)

IssueTimestamp ==
    [title |-> "Post.timestamp default callable", status |-> "fixed"]
IssueForeignKey ==
    [title |-> "Post.user_id foreign key and relationship", status |-> "fixed"]
IssueReview ==
    [title |-> "Review tests and model configuration",
     status |-> "needs-attention"]

SUMMARY_TEMPLATE ==
    [issues_detected |-> << >>,
     tests |-> [total |-> JInt(0), passed |-> JInt(0), failed |-> JInt(0),
                skipped |-> JInt(0)],
     status |-> "unknown"]

NoOutFile == [kind |-> "absent"]

\* a loader that takes a missing file for an empty report
LoadErrorDefaulting(raw) == IF raw.kind = "invalid" THEN "JSONDecodeError" ELSE "ok"

\* json.load of the report file: the exception it raises, or "ok"
LoadError(raw) ==
    CASE raw.kind = "absent" -> "FileNotFoundError"
      [] raw.kind = "invalid" -> "JSONDecodeError"
      [] OTHER -> "ok"

\* report.get('summary', {}).get(key, 0) is evaluated: AttributeError when
\* report, or the value under 'summary', has no .get
GetError(raw) == raw.kind = "array" \/ raw.skind = "nonmap"

\* report.get('summary', {}).get(key, 0)
CountOf(raw, key) == Get(raw[key], JInt(0))

\* the assignments with 'passed' and 'failed' read from each other's key
CountTestsSwapped(raw) ==
    [total |-> CountOf(raw, "total"), passed |-> CountOf(raw, "failed"),
     failed |-> CountOf(raw, "passed"), skipped |-> CountOf(raw, "skipped")]

\* the four assignments to summary['tests'][...]
CountTests(raw) ==
    [total |-> CountOf(raw, "total"), passed |-> CountOf(raw, "passed"),
     failed |-> CountOf(raw, "failed"), skipped |-> CountOf(raw, "skipped")]

\* the status with >= in place of >
StatusOfAtLeastZero(tests) ==
    IF tests.failed.t = "int" /\ tests.failed.n < 0 THEN "success" ELSE "failure"

\* lines 38-41
StatusOf(tests) == IF GreaterThanZero(tests.failed) THEN "failure" ELSE "success"

\* the appends to summary['issues_detected']
AppendIssues(issues, status) ==
    IF status = "success"
    THEN Append(Append(issues, IssueTimestamp), IssueForeignKey)
    ELSE Append(issues, IssueReview)

\* summary = SUMMARY_TEMPLATE.copy(): a shallow copy.  The copy has its own
\* 'status' key, and shares the 'tests' mapping and the 'issues_detected'
\* list with the template, so that writes to those two land in the template.
ShallowCopy(tpl) == tpl

\* the exit code of a script that ends by: returning from main / falling off
\* the module body, sys.exit(2), an uncaught exception
ExitReturned == 0
ExitNotFound == 2
ExitUncaught == 1

RunRecord(script, call, code, wrote, out) ==
    [script |-> script, call |-> call, exit |-> code, wrote |-> wrote,
     out |-> out]

\* runs keeps the last run on the current input, and the run before it when
\* that was a run of the same script
Record(rs, r) ==
    IF rs # << >> /\ rs[Len(rs)].script = r.script
    THEN <<rs[Len(rs)], r>>
    ELSE <<r>>

\* the external test runner (re)writes raw_results.json, or removes it
ProduceRaw(r) ==
    /\ r # rawFile
    /\ rawFile' = r
    /\ runs' = << >>
    /\ UNCHANGED <<outFile, proc, template, calls, runVars, dbVars, goVars>>

\* python imports test_summary: the module body builds SUMMARY_TEMPLATE
StartProcess ==
    /\ proc = "none"
    /\ proc' = "test_summary"
    /\ template' = SUMMARY_TEMPLATE
    /\ calls' = 0
    /\ UNCHANGED <<rawFile, outFile, runs, runVars, dbVars, goVars>>

\* what one call of main() does to a template tpl on the report raw:
\* exit is the code the call ends the process with (ExitReturned: it returns),
\* tpl the template after it, wrote whether output.json was written, and then
\* out is what json.dump wrote
MainResult(raw, tpl, writable) ==
    IF LoadError(raw) = "FileNotFoundError"
    THEN [exit |-> ExitNotFound, tpl |-> tpl, wrote |-> FALSE, out |-> NoOutFile]
    ELSE IF LoadError(raw) # "ok" \/ GetError(raw)
    THEN [exit |-> ExitUncaught, tpl |-> tpl, wrote |-> FALSE, out |-> NoOutFile]
    ELSE
      LET summary == ShallowCopy(tpl)
          tests == CountTests(raw)
          counted == [tpl EXCEPT !.tests = tests]
      IN IF ~Comparable(tests.failed)
         THEN [exit |-> ExitUncaught, tpl |-> counted, wrote |-> FALSE,
               out |-> NoOutFile]
         ELSE
           LET status == StatusOf(tests)
               issues == AppendIssues(summary.issues_detected, status)
               after == [counted EXCEPT !.issues_detected = issues]
           IN IF ~writable
              THEN [exit |-> ExitUncaught, tpl |-> after, wrote |-> FALSE,
                    out |-> NoOutFile]
              ELSE [exit |-> ExitReturned, tpl |-> after, wrote |-> TRUE,
                    out |-> [kind |-> "summary", tests |-> tests,
                             status |-> status, issues_detected |-> issues]]

\* one call of main(); writable: whether open(OUT_REPORT, 'w') succeeds.
\* A call that raises ends the process.
Main(writable) ==
    LET r == MainResult(rawFile, template, writable)
    IN /\ proc = "test_summary"
       /\ calls < MaxCalls
       /\ outFile' = IF r.wrote THEN r.out ELSE outFile
       /\ runs' = Record(runs, RunRecord("test_summary", calls + 1, r.exit,
                                         r.wrote, outFile'))
       /\ IF r.exit = ExitReturned
          THEN /\ template' = r.tpl
               /\ calls' = calls + 1
               /\ UNCHANGED proc
          ELSE /\ proc' = "none"
               /\ template' = SUMMARY_TEMPLATE
               /\ calls' = 0
       /\ UNCHANGED <<rawFile, runVars, dbVars, goVars>>

\* the process ends after main() returned, with exit code ExitReturned
EndProcess ==
    /\ proc = "test_summary"
    /\ calls >= 1
    /\ proc' = "none"
    /\ template' = SUMMARY_TEMPLATE
    /\ calls' = 0
    /\ UNCHANGED <<rawFile, outFile, runs, runVars, dbVars, goVars>>

----------------------------------------------------------------------------
(* create_output.py: the module body is the whole script *)

\* the summary mapping built at lines 3-8
CreateSummary(raw) ==
    [tests_run |-> CountOf(raw, "total"), tests_failed |-> CountOf(raw, "failed"),
     tests_passed |-> CountOf(raw, "passed"),
     tests_skipped |-> CountOf(raw, "skipped")]

\* exit code of a run of the script, and whether it wrote output.json
CreateOutputResult(raw, writable) ==
    IF LoadError(raw) # "ok" \/ GetError(raw) \/ ~writable
    THEN [exit |-> ExitUncaught, wrote |-> FALSE]
    ELSE [exit |-> ExitReturned, wrote |-> TRUE]

CreateOutput(writable) ==
    LET r == CreateOutputResult(rawFile, writable)
    IN /\ proc = "none"
       /\ outFile' = IF r.wrote
                     THEN [kind |-> "counts", counts |-> CreateSummary(rawFile)]
                     ELSE outFile
       /\ runs' = Record(runs, RunRecord("create_output", 1, r.exit, r.wrote,
                                         outFile'))
       /\ UNCHANGED <<rawFile, proc, template, calls, runVars, dbVars,
                      goVars>>

----------------------------------------------------------------------------
----------------------------------------------------------------------------
(* generate_report.py *)

\* return codes a subprocess ends with
ReturnCodes == {0, 1, 2}

\* how the pytest subprocess ends: its return code, and the ' PASSED' and
\* ' FAILED' marks in its output (0: all passed, 1: some test failed, 2: the
\* run broke off)
PytestOutcomes ==
    {[rc |-> 0, passed |-> 1, failed |-> 0], [rc |-> 1, passed |-> 0, failed |-> 1],
     [rc |-> 1, passed |-> 1, failed |-> 1], [rc |-> 2, passed |-> 0, failed |-> 0]}

\* a main() that reports success whatever the tests did
ReportExitZero(rc) == 0

\* return result.returncode, handed to sys.exit
ReportExit(rc) == rc

\* one run of the script: rc is the return code of its pytest subprocess,
\* passed and failed the ' PASSED' and ' FAILED' marks counted in its output
GenerateReportResult(rc, passed, failed, writable) ==
    IF ~writable
    THEN [exit |-> ExitUncaught, wrote |-> FALSE, out |-> NoOutFile]
    ELSE [exit |-> ReportExit(rc), wrote |-> TRUE,
          out |-> [kind |-> "report", exit_code |-> rc,
                   status |-> IF rc = 0 THEN "PASSED" ELSE "FAILED",
                   total_tests |-> passed + failed, passed_tests |-> passed,
                   failed_tests |-> failed, fix_verified |-> (rc = 0)]]

GenerateReport(rc, passed, failed, writable) ==
    LET r == GenerateReportResult(rc, passed, failed, writable)
    IN /\ proc = "none"
       /\ outFile' = IF r.wrote THEN r.out ELSE outFile
       /\ runs' = Record(runs, RunRecord("generate_report", 1, r.exit, r.wrote,
                                         outFile'))
       /\ UNCHANGED <<rawFile, proc, template, calls, runVars, dbVars,
                      goVars>>

----------------------------------------------------------------------------
(* run_test.py: main() makes one run_command step after the other *)

Step(cmd, rc, wrote) == [cmd |-> cmd, rc |-> rc, wrote |-> wrote]

\* run_command: with check set, a non-zero return code ends the script
Exits(check, rc) == check /\ rc # 0

\* the script ends with exit code code, having made the steps done and kept
\* the test step's return code res
RunTestEnds(code, done, res) ==
    /\ proc' = "none"
    /\ pc' = "none"
    /\ result' = -1
    /\ steps' = << >>
    /\ runs' = Record(runs,
                  [script |-> "run_test", call |-> 1, exit |-> code,
                   wrote |-> (\E i \in 1..Len(done) : done[i].wrote),
                   out |-> outFile', steps |-> done, result |-> res])

\* main() starts; needVenv: not in a virtual environment and no venv directory.
\* The test run it is about to make replaces raw_results.json: it opens a
\* new round of runs.
RunTestStart(needVenv) ==
    /\ proc = "none"
    /\ proc' = "run_test"
    /\ pc' = IF needVenv THEN "venv" ELSE "pip"
    /\ result' = -1
    /\ steps' = << >>
    /\ runs' = << >>
    /\ UNCHANGED <<rawFile, outFile, template, calls, dbVars, goVars>>

\* python -m venv venv, check=True
CreateVenv(rc) ==
    LET done == Append(steps, Step("venv", rc, FALSE))
    IN /\ pc = "venv"
       /\ UNCHANGED <<rawFile, outFile, template, calls, dbVars, goVars>>
       /\ IF Exits(TRUE, rc)
          THEN RunTestEnds(rc, done, result)
          ELSE /\ pc' = "pip"
               /\ steps' = done
               /\ UNCHANGED <<proc, runs, result>>

\* pip install --upgrade pip, check=False
UpgradePip(rc) ==
    LET done == Append(steps, Step("pip", rc, FALSE))
    IN /\ pc = "pip"
       /\ UNCHANGED <<rawFile, outFile, template, calls, dbVars, goVars>>
       /\ IF Exits(FALSE, rc)
          THEN RunTestEnds(rc, done, result)
          ELSE /\ pc' = "install"
               /\ steps' = done
               /\ UNCHANGED <<proc, runs, result>>

\* pip install -r requirements.txt, check=True
InstallDeps(rc) ==
    LET done == Append(steps, Step("install", rc, FALSE))
    IN /\ pc = "install"
       /\ UNCHANGED <<rawFile, outFile, template, calls, dbVars, goVars>>
       /\ IF Exits(TRUE, rc)
          THEN RunTestEnds(rc, done, result)
          ELSE /\ pc' = "pytest"
               /\ steps' = done
               /\ UNCHANGED <<proc, runs, result>>

\* what pytest --json-report-file=raw_results.json leaves in the file: a
\* report of the run, or the file as it was when pytest ends before reporting
PytestReport(rc, old) ==
    CASE rc = 0 -> Summary(JInt(1), JInt(1), JAbsent, JAbsent)
      [] rc = 1 -> Summary(JInt(1), JAbsent, JInt(1), JAbsent)
      [] OTHER -> old

\* pytest test_models.py --json-report, check=False; result keeps the code
RunTests(rc) ==
    LET done == Append(steps, Step("pytest", rc, FALSE))
    IN /\ pc = "pytest"
       /\ rawFile' = PytestReport(rc, rawFile)
       /\ UNCHANGED <<outFile, template, calls, dbVars, goVars>>
       /\ IF Exits(FALSE, rc)
          THEN RunTestEnds(rc, done, rc)
          ELSE /\ pc' = "generate_report"
               /\ steps' = done
               /\ result' = rc
               /\ runs' = IF rc \in {0, 1} THEN << >> ELSE runs
               /\ UNCHANGED proc

\* python generate_report.py, check=True: the subprocess is one run of
\* generate_report.py, and its exit code the step's return code
RunReport(rc, passed, failed, writable) ==
    LET r == GenerateReportResult(rc, passed, failed, writable)
        done == Append(steps, Step("generate_report", r.exit, r.wrote))
    IN /\ pc = "generate_report"
       /\ outFile' = IF r.wrote THEN r.out ELSE outFile
       /\ UNCHANGED <<rawFile, template, calls, dbVars, goVars>>
       /\ IF Exits(TRUE, r.exit)
          THEN RunTestEnds(r.exit, done, result)
          ELSE /\ pc' = "exit"
               /\ steps' = done
               /\ UNCHANGED <<proc, runs, result>>

\* sys.exit(result.returncode)
RunTestExit ==
    /\ pc = "exit"
    /\ UNCHANGED <<rawFile, outFile, template, calls, dbVars, goVars>>
    /\ RunTestEnds(result, steps, result)

----------------------------------------------------------------------------
(* generate_output.py: the __main__ block is the whole script.  A JSON     *)
(* value is [t, v]: t its type ("absent" for a key that is not there), v   *)
(* the members of a mapping or the items of a sequence, in order.          *)

GAbsent == [t |-> "absent", v |-> << >>]
GNull == [t |-> "null", v |-> << >>]
GMapping(members) == [t |-> "object", v |-> members]
GSequence(items) == [t |-> "array", v |-> items]

\* the test records of a report
TestRecords ==
    {[nodeid |-> "test_models.py::a", outcome |-> "passed"],
     [nodeid |-> "test_models.py::b", outcome |-> "failed"]}

\* the sequences of at most n test records
RECURSIVE TestSeqs(_)
TestSeqs(n) ==
    IF n = 0 THEN {<< >>}
    ELSE TestSeqs(n - 1) \cup
         {Append(s, t) : s \in {x \in TestSeqs(n - 1) : Len(x) = n - 1},
                         t \in TestRecords}

\* values found under 'summary' and under 'tests'
SummaryValues ==
    {GAbsent, GNull, GMapping(<< >>),
     GMapping(<<[key |-> "passed", n |-> 1], [key |-> "failed", n |-> 1],
                [key |-> "total", n |-> 2]>>)}
TestsValues == {GAbsent, GNull} \cup {GSequence(s) : s \in TestSeqs(MaxTests)}

\* the file at raw_path.  kind as for raw_results.json; other: the top level
\* has keys besides 'summary' and 'tests' (created, duration, exitcode, ...)
Document(kind, summary, tests, other) ==
    [kind |-> kind, summary |-> summary, tests |-> tests, other |-> other]

NoDocument == Document("absent", GAbsent, GAbsent, FALSE)
Documents ==
    {NoDocument, Document("invalid", GAbsent, GAbsent, FALSE),
     Document("array", GAbsent, GAbsent, FALSE)} \cup
    {Document("object", s, t, o) :
        s \in SummaryValues, t \in TestsValues, o \in BOOLEAN}

\* sys.exit(2) after the usage line
ExitUsage == 2

\* a converter that copies the summary and leaves the tests out
SummaryOfNoTests(data) ==
    [kind |-> "output", keys |-> <<"summary", "tests">>,
     summary |-> Get(data.summary, GMapping(<< >>)),
     tests |-> GSequence(<< >>)]

\* the mapping built at lines 15-18 from the loaded data
SummaryOf(data) ==
    [kind |-> "output", keys |-> <<"summary", "tests">>,
     summary |-> Get(data.summary, GMapping(<< >>)),
     tests |-> Get(data.tests, GSequence(<< >>))]

\* the record of a run: len(sys.argv), the exit code, whether the usage
\* line was printed, raw_path was opened and out_path was written
OutputRun(argc, code, usage, read, wrote) ==
    [argc |-> argc, exit |-> code, usage |-> usage, read |-> read,
     wrote |-> wrote]

NoOutputRun == OutputRun(0, ExitReturned, FALSE, FALSE, FALSE)

\* one run with len(sys.argv) = argc on the document data
GenerateOutputResult(argc, data, writable) ==
    IF argc < 3
    THEN OutputRun(argc, ExitUsage, TRUE, FALSE, FALSE)
    ELSE IF data.kind # "object" \/ ~writable
    THEN OutputRun(argc, ExitUncaught, FALSE, TRUE, FALSE)
    ELSE OutputRun(argc, ExitReturned, FALSE, TRUE, TRUE)

\* the external test runner (re)writes the file at raw_path, or removes it
WriteDocument(d) ==
    /\ d # raw_path
    /\ raw_path' = d
    /\ lastOutput' = NoOutputRun
    /\ UNCHANGED <<rawFile, outFile, proc, template, calls, runs, runVars,
                   dbVars, out_path>>

\* python generate_output.py with argc - 1 arguments
GenerateOutput(argc, writable) ==
    LET r == GenerateOutputResult(argc, raw_path, writable)
    IN /\ lastOutput' = r
       /\ out_path' = IF r.wrote THEN SummaryOf(raw_path) ELSE out_path
       /\ UNCHANGED <<rawFile, outFile, proc, template, calls, runs, runVars,
                      dbVars, raw_path>>

----------------------------------------------------------------------------
(* models.py: User and Post, and the session operations made on them.     *)
(* An id or user_id of 0 stands for None.  The database is SQLite as the   *)
(* fixtures set it up: NOT NULL and UNIQUE are enforced, a foreign key is  *)
(* declared and not enforced.  Time is counted in ticks of the clock that  *)
(* datetime.utcnow() reads; the clock does not run backwards.              *)

\* the timestamp of a Post that was constructed without one: None
NoTimestamp == -1
\* the clock reading when models.py is imported
ImportTime == 0

Usernames == {"alice", "bob", "charlie"}
Text == "text"
NullText == "NULL"

\* User(username=name)
NewUser(name) ==
    [type |-> "User", username |-> name, body |-> NullText, user_id |-> 0,
     author |-> 0]

\* Post(body=body, user_id=user_id), and post.author = <the user with id
\* author> when author is not 0
NewPost(body, user_id, author) ==
    [type |-> "Post", username |-> "", body |-> body, user_id |-> user_id,
     author |-> author, timestamp |-> NoTimestamp]

\* Post(..., timestamp=t)
WithTimestamp(o, t) == [o EXCEPT !.timestamp = t]

NoUser == [id |-> 0, username |-> ""]

\* what a session operation did: op and result, the (post, user) pairs it
\* stored through post.author, the posts it deleted, the ids of the posts it
\* stored with the default timestamp, the clock readings taken just before
\* the objects were created and just after the commit returned, and whether
\* a post of the batch had user_id None
OpRecord(op, res, authored, deleted, stamped, before, after, nullUser) ==
    [op |-> op, result |-> res, authored |-> authored, deleted |-> deleted,
     stamped |-> stamped, before |-> before, after |-> after,
     nullUser |-> nullUser]

NoOp == OpRecord("none", "none", {}, {}, {}, ImportTime, ImportTime, FALSE)

\* the objects a test adds to the session, given the rows of table user
NewObjects(userRows) ==
    {NewUser(n) : n \in Usernames} \cup
    {NewPost(Text, k, 0) : k \in 0..MaxUsers} \cup
    {NewPost(Text, 0, u.id) : u \in userRows} \cup
    {NewPost(NullText, 1, 0)}

\* session.add(a) and session.add_all([a, b])
Batches(userRows) ==
    {<<a>> : a \in NewObjects(userRows)} \cup
    {<<a, b>> : a \in NewObjects(userRows), b \in NewObjects(userRows)}

\* the objects added where the timestamps are looked at: the user alice (a
\* second alice violates the unique username), and posts of a stored user
\* without a timestamp and with one of their own, which lies in the future
TimedObjects(userRows) ==
    {NewUser("alice")} \cup
    {NewPost(Text, u.id, 0) : u \in userRows} \cup
    {WithTimestamp(NewPost(Text, u.id, 0), MaxClock) : u \in userRows}

TimedBatches(userRows) ==
    {<<a>> : a \in TimedObjects(userRows)} \cup
    {<<a, b>> : a \in TimedObjects(userRows), b \in TimedObjects(userRows)}

\* the readings n calls of datetime.utcnow() give one after the other, the
\* clock reading lo before the first and hi after the last
Readings(n, lo, hi) ==
    {r \in [1..n -> lo..hi] : \A i \in 1..(n - 1) : r[i] <= r[i + 1]}

\* a relationship that loads every post, whatever its user_id
User_postsUnfiltered(u) == posts

\* User.posts: the lazy='dynamic' query over post.user_id = user.id
User_posts(u) == {p \in posts : p.user_id = u.id}

\* Post.author, the backref: the user whose primary key is post.user_id
Post_author(p) ==
    IF \E u \in users : u.id = p.user_id
    THEN CHOOSE u \in users : u.id = p.user_id
    ELSE NoUser

\* INTEGER PRIMARY KEY: one more than the largest id in the table
NextId(rows) ==
    IF rows = {} THEN 1 ELSE (CHOOSE m \in {r.id : r \in rows} :
                                \A r \in rows : r.id <= m) + 1

IsUser(o) == o.type = "User"
IsPost(o) == o.type = "Post"

\* the flush sets user_id from the author relationship when that is set
FlushedUserId(o) == IF o.author # 0 THEN o.author ELSE o.user_id

RECURSIVE InsertUsers(_, _)
InsertUsers(rows, objs) ==
    IF objs = << >> THEN rows
    ELSE InsertUsers(rows \cup {[id |-> NextId(rows),
                                 username |-> Head(objs).username]}, Tail(objs))

\* default=datetime.utcnow(): the call made once, when the class is defined
DefaultTimestampAtImport(now) == ImportTime

\* default=datetime.utcnow: the callable is called when the row is inserted
DefaultTimestamp(now) == now

\* the timestamp the INSERT stores for o at clock reading now
InsertedTimestamp(o, now) ==
    IF o.timestamp = NoTimestamp THEN DefaultTimestamp(now) ELSE o.timestamp

\* the posts objs are inserted one after the other, nows[i] the clock
\* reading when the i-th is inserted
RECURSIVE InsertPosts(_, _, _)
InsertPosts(rows, objs, nows) ==
    IF objs = << >> THEN rows
    ELSE InsertPosts(rows \cup {[id |-> NextId(rows), body |-> Head(objs).body,
                                 user_id |-> FlushedUserId(Head(objs)),
                                 timestamp |->
                                     InsertedTimestamp(Head(objs), Head(nows))]},
                     Tail(objs), Tail(nows))

\* the ids the flush hands to the posts of objs that have no timestamp of
\* their own
Stamped(rows, objs) ==
    {NextId(rows) + i - 1 :
        i \in {j \in 1..Len(objs) : objs[j].timestamp = NoTimestamp}}

\* the (post id, user id) pairs of the posts of objs that were given an
\* author, with the ids the flush hands out after the rows
RECURSIVE Authored(_, _)
Authored(rows, objs) ==
    IF objs = << >> THEN {}
    ELSE LET id == NextId(rows)
             row == [id |-> id]
             rest == Authored(rows \cup {row}, Tail(objs))
         IN IF Head(objs).author # 0
            THEN {[post |-> id, user |-> Head(objs).author]} \cup rest
            ELSE rest

\* user_id = db.Column(db.Integer): no foreign key, and NULL is allowed
Post_user_idPlain == [foreign_keys |-> {}, nullable |-> TRUE]

\* Post.user_id: db.Column(db.Integer, db.ForeignKey('user.id'),
\* nullable=False)
Post_user_id ==
    [foreign_keys |-> {[table |-> "user", column |-> "id"]}, nullable |-> FALSE]

\* the flush violates a constraint: username unique, body and user_id not null
IntegrityError(batch) ==
    \/ \E i \in 1..Len(batch) :
          /\ IsUser(batch[i])
          /\ \/ \E u \in users : u.username = batch[i].username
             \/ \E j \in 1..Len(batch) :
                   j # i /\ IsUser(batch[j])
                         /\ batch[j].username = batch[i].username
    \/ \E i \in 1..Len(batch) :
          /\ IsPost(batch[i])
          /\ \/ batch[i].body = NullText
             \/ ~Post_user_id.nullable /\ FlushedUserId(batch[i]) = 0

\* a post of the batch is flushed with user_id None
NullUserId(batch) ==
    \E i \in 1..Len(batch) : IsPost(batch[i]) /\ FlushedUserId(batch[i]) = 0

\* the objects of the batch are created, session.add / add_all of the batch,
\* then session.commit(): users are inserted before posts; an IntegrityError
\* rolls the transaction back.  nows are the clock readings at the INSERTs of
\* the posts, after is the reading when commit() has returned.
Commit(batch, nows, after) ==
    LET us == SelectSeq(batch, IsUser)
        ps == SelectSeq(batch, IsPost)
    IN /\ Cardinality(users) + Len(us) <= MaxUsers
       /\ NextId(posts) + Len(ps) - 1 <= MaxPostId
       /\ after \in clock..MaxClock
       /\ nows \in Readings(Len(ps), clock, after)
       /\ clock' = after
       /\ IF IntegrityError(batch)
          THEN /\ lastOp' = OpRecord("commit", "IntegrityError", {}, {}, {},
                                     clock, after, NullUserId(batch))
               /\ UNCHANGED <<users, posts, defaulted>>
          ELSE /\ users' = InsertUsers(users, us)
               /\ posts' = InsertPosts(posts, ps, nows)
               /\ defaulted' = defaulted \cup Stamped(posts, ps)
               /\ lastOp' = OpRecord("commit", "ok", Authored(posts, ps), {},
                                     Stamped(posts, ps), clock, after,
                                     NullUserId(batch))
       /\ UNCHANGED <<rawFile, outFile, proc, template, calls, runs, runVars,
                      goVars>>

\* session.delete(post), then session.commit()
DeletePost(p) ==
    /\ p \in posts
    /\ posts' = posts \ {p}
    /\ defaulted' = defaulted \ {p.id}
    /\ lastOp' = OpRecord("delete", "ok", {}, {p}, {}, clock, clock, FALSE)
    /\ UNCHANGED <<rawFile, outFile, proc, template, calls, runs, runVars,
                   goVars, users, clock>>

\* time passes
Tick ==
    /\ clock < MaxClock
    /\ clock' = clock + 1
    /\ UNCHANGED <<rawFile, outFile, proc, template, calls, runs, runVars,
                   goVars, users, posts, lastOp, defaulted>>

Init ==
    /\ rawFile = NoRawFile
    /\ outFile = NoOutFile
    /\ proc = "none"
    /\ template = SUMMARY_TEMPLATE
    /\ calls = 0
    /\ runs = << >>
    /\ pc = "none"
    /\ result = -1
    /\ steps = << >>
    /\ users = {}
    /\ posts = {}
    /\ lastOp = NoOp
    /\ clock = ImportTime
    /\ defaulted = {}
    /\ raw_path = NoDocument
    /\ out_path = NoOutFile
    /\ lastOutput = NoOutputRun

Next ==
    \/ \E r \in RawReports \cup {NoRawFile} : ProduceRaw(r)
    \/ StartProcess
    \/ \E w \in BOOLEAN : Main(w)
    \/ EndProcess
    \/ \E w \in BOOLEAN : CreateOutput(w)

Spec == Init /\ [][Next]_vars

\* raw reports the scripts are run on where only the exit codes are looked at
ExitReports ==
    {NoRawFile, InvalidJson, Summary(JInt(1), JInt(1), JInt(0), JInt(0)),
     Summary(JInt(1), JInt(0), JInt(1), JInt(0))}

NextExit ==
    \/ \E r \in ExitReports : ProduceRaw(r)
    \/ StartProcess
    \/ \E w \in BOOLEAN : Main(w)
    \/ EndProcess
    \/ \E w \in BOOLEAN : CreateOutput(w)
    \/ \E o \in PytestOutcomes, w \in BOOLEAN :
          GenerateReport(o.rc, o.passed, o.failed, w)
    \/ \E v \in BOOLEAN : RunTestStart(v)
    \/ \E rc \in ReturnCodes : CreateVenv(rc)
    \/ \E rc \in ReturnCodes : UpgradePip(rc)
    \/ \E rc \in ReturnCodes : InstallDeps(rc)
    \/ \E rc \in ReturnCodes : RunTests(rc)
    \/ \E o \in PytestOutcomes, w \in BOOLEAN :
          RunReport(o.rc, o.passed, o.failed, w)
    \/ RunTestExit

SpecExit == Init /\ [][NextExit]_vars

\* the session operations, made at one tick of the clock
NextDb ==
    \/ \E b \in Batches(users) :
          \E nows \in Readings(Len(SelectSeq(b, IsPost)), clock, clock) :
             Commit(b, nows, clock)
    \/ \E p \in posts : DeletePost(p)

SpecDb == Init /\ [][NextDb]_vars

\* the session operations while time passes
NextTime ==
    \/ \E b \in TimedBatches(users), after \in clock..MaxClock :
          \E nows \in Readings(Len(SelectSeq(b, IsPost)), clock, after) :
             Commit(b, nows, after)
    \/ \E p \in posts : DeletePost(p)
    \/ Tick

SpecTime == Init /\ [][NextTime]_vars

\* runs of generate_output.py with no, one, two and three arguments
NextOutput ==
    \/ \E d \in Documents : WriteDocument(d)
    \/ \E argc \in 1..4, w \in BOOLEAN : GenerateOutput(argc, w)

SpecOutput == Init /\ [][NextOutput]_vars


----------------------------------------------------------------------------
(* What the claims speak of. *)

HasRun == runs # << >>
Last == runs[Len(runs)]

\* the count a raw report states under key k: 0 when the key, or the whole
\* summary mapping, is absent
FieldOrZero(raw, k) ==
    IF raw.skind = "object" /\ raw[k].t # "absent" THEN raw[k] ELSE JInt(0)

\* the four counts of a written output.json, under the summarizer's names
WrittenCounts(out) ==
    IF out.kind = "summary"
    THEN out.tests
    ELSE [total |-> out.counts.tests_run, passed |-> out.counts.tests_passed,
          failed |-> out.counts.tests_failed,
          skipped |-> out.counts.tests_skipped]

\* the failed count of a raw report is greater than 0
FailedPositive(raw) ==
    /\ raw.skind = "object"
    /\ \/ raw.failed.t = "int" /\ raw.failed.n > 0
       \/ raw.failed.t = "float"

\* C1: every run that wrote output.json wrote, as its four counts, the raw
\* report's summary fields total, passed, failed and skipped, and 0 for a
\* field that is absent or whose summary mapping is absent.
C1_CountsEqualRaw ==
    \A i \in 1..Len(runs) :
        runs[i].wrote =>
            \A k \in Fields : WrittenCounts(runs[i].out)[k] = FieldOrZero(rawFile, k)

\* a second main() call of a process wrote the counts of a report that
\* states passed = 1 and has no 'failed' key
C1_Witness ==
    /\ HasRun /\ Last.wrote /\ Last.script = "test_summary" /\ Last.call = 2
    /\ rawFile = OneAbsent("failed")
    /\ Last.out.tests.passed = JInt(1) /\ Last.out.tests.failed = JInt(0)

\* C2: a test_summary run that loaded the report and wrote output.json wrote
\* status 'failure' exactly when the failed count is greater than 0, and
\* 'success' otherwise, never 'unknown'.
C2_StatusIffFailed ==
    \A i \in 1..Len(runs) :
        (runs[i].wrote /\ runs[i].script = "test_summary") =>
            /\ runs[i].out.status = "failure" <=> FailedPositive(rawFile)
            /\ runs[i].out.status = "success" <=> ~FailedPositive(rawFile)

\* an empty summary mapping was summarized as 'success' with all counts 0
C2_Witness ==
    /\ HasRun /\ Last.wrote /\ Last.script = "test_summary"
    /\ rawFile = Summary(JAbsent, JAbsent, JAbsent, JAbsent)
    /\ Last.out.status = "success"
    /\ \A k \in Fields : Last.out.tests[k] = JInt(0)

ReportStep(r) == r.steps[Len(r.steps)]

\* C4 as stated: a run that wrote its report ends with exit code 0, whatever
\* the tests did; this for test_summary, create_output, generate_report and
\* run_test alike.
C4_WrittenExitsZero ==
    \A i \in 1..Len(runs) : runs[i].wrote => runs[i].exit = 0

\* C4 as amended: test_summary and create_output end with exit code 0
\* exactly when they wrote the report.  generate_report, having written its
\* report, ends with the return code of its pytest run (1 when the write
\* failed); run_test, the report written, ends with the code of the
\* generate_report step when that is not 0 and else with the return code of
\* its test step.
C4_ExitCodes ==
    \A i \in 1..Len(runs) :
        LET r == runs[i]
        IN /\ r.script \in {"test_summary", "create_output"} =>
                (r.wrote <=> r.exit = 0)
           /\ r.script = "generate_report" =>
                r.exit = (IF r.wrote THEN r.out.exit_code ELSE 1)
           /\ (r.script = "run_test" /\ r.wrote) =>
                /\ ReportStep(r).cmd = "generate_report"
                /\ ReportStep(r).rc = r.out.exit_code
                /\ r.exit = (IF ReportStep(r).rc # 0 THEN ReportStep(r).rc
                             ELSE r.result)

\* generate_report wrote its report of a failing test run and ended with
\* exit code 1
C4_Witness ==
    /\ HasRun /\ Last.script = "generate_report" /\ Last.wrote
    /\ Last.out.status = "FAILED" /\ Last.out.failed_tests = 1
    /\ Last.exit = 1


\* C5 as stated: a run on a raw_results.json that exists and is not of the
\* expected shape ends with a non-zero exit code and does not open
\* output.json for writing.
C5_MalformedAborts ==
    \A i \in 1..Len(runs) :
        rawFile \in MalformedReports => ~runs[i].wrote /\ runs[i].exit # 0

\* C6 as stated: two runs of the same script in a row on the same unchanged
\* raw_results.json that both write output.json write the same content, be
\* they two processes or two main() calls of one process.
C6_Idempotent ==
    (Len(runs) = 2 /\ runs[1].script = runs[2].script
       /\ runs[1].wrote /\ runs[2].wrote) => runs[1].out = runs[2].out

\* what a call of main() on raw writes when nothing ran before it
FreshOutput(raw) == MainResult(raw, SUMMARY_TEMPLATE, TRUE).out

\* C7 as stated: the report a main() call wrote is the one a first call on
\* the same input writes, and the template of the process still holds its
\* initial values.
C7_Recomputed ==
    (HasRun /\ Last.script = "test_summary" /\ Last.wrote) =>
        /\ Last.out = FreshOutput(rawFile)
        /\ proc = "test_summary" => template = SUMMARY_TEMPLATE

\* C8 as stated: a written report with status 'failure' holds exactly one
\* issue, the 'needs-attention' advisory.
C8_FailureOneAdvisory ==
    (outFile.kind = "summary" /\ outFile.status = "failure") =>
        outFile.issues_detected = <<IssueReview>>

\* C9 as stated: a written report with status 'success' holds exactly the
\* static catalog, in order.
C9_SuccessCatalog ==
    (outFile.kind = "summary" /\ outFile.status = "success") =>
        outFile.issues_detected = <<IssueTimestamp, IssueForeignKey>>

\* C10: in every state of the database, a post whose user_id is the id of a
\* user has that user as its author; a post is in the posts of a user exactly
\* when that user is its author; a post committed with an author assigned
\* reads that author back; a deleted post is neither in the table nor in the
\* posts of any user.
C10_RelationshipConsistent ==
    /\ \A p \in posts : \A u \in users :
          (p.user_id = u.id => Post_author(p) = u)
          /\ (p \in User_posts(u) <=> Post_author(p) = u)
    /\ \A u \in users : User_posts(u) \subseteq posts
    /\ \A a \in lastOp.authored :
          \E p \in posts : p.id = a.post /\ Post_author(p).id = a.user
    /\ \A d \in lastOp.deleted :
          d \notin posts /\ \A u \in users : d \notin User_posts(u)

\* two users are stored, one with a post that was committed through
\* post.author, and a post of the other was deleted by the last commit
C10_Witness ==
    \E u1 \in users, u2 \in users :
        /\ u1 # u2
        /\ \E p \in User_posts(u1) : Post_author(p) = u1
        /\ \E d \in lastOp.deleted : d.user_id = u2.id
        /\ User_posts(u2) = {}

\* C11: a post committed without a timestamp of its own is stored with a
\* timestamp that is not None, not earlier than the clock reading taken just
\* before the post was created and not later than the reading taken after
\* the commit; of two such posts, the one committed later has a timestamp
\* greater than or equal to the other's.
C11_TimestampAtInsert ==
    /\ \A p \in posts : p.id \in defaulted => p.timestamp # NoTimestamp
    /\ \A p \in posts :
          p.id \in lastOp.stamped =>
              lastOp.before <= p.timestamp /\ p.timestamp <= lastOp.after
    /\ \A p \in posts, q \in posts :
          (p.id \in defaulted /\ q.id \in defaulted /\ p.id < q.id)
              => p.timestamp <= q.timestamp

\* two posts were committed one after the other without a timestamp, the
\* second one some time after the module was imported and in a commit during
\* which time passed, and the second has the greater timestamp
C11_Witness ==
    \E p \in posts, q \in posts :
        /\ p.id \in defaulted /\ q.id \in lastOp.stamped /\ p.id < q.id
        /\ p.timestamp < q.timestamp
        /\ ImportTime < lastOp.before /\ lastOp.before < lastOp.after

\* C12: a commit of a batch that holds a post whose user_id is None ends with
\* an IntegrityError and leaves table post as it was; every stored post has
\* a user_id that is not None; the user_id column has a foreign key that
\* references table user.
C12_NullUserRejected ==
    /\ [](\A p \in posts : p.user_id # 0)
    /\ [](lastOp.nullUser => lastOp.result = "IntegrityError")
    /\ [][lastOp'.nullUser => posts' = posts]_vars
    /\ [](\E fk \in Post_user_id.foreign_keys : fk.table = "user")

\* with a user and a post stored, a commit of a post whose user_id is None
\* ended with an IntegrityError
C12_Witness ==
    /\ lastOp.op = "commit" /\ lastOp.nullUser
    /\ lastOp.result = "IntegrityError"
    /\ users # {} /\ posts # {}

\* the position of a step in main(): virtual environment, pip upgrade,
\* dependency install, test run, report generation
Rank(cmd) ==
    CASE cmd = "venv" -> 1
      [] cmd = "pip" -> 2
      [] cmd = "install" -> 3
      [] cmd = "pytest" -> 4
      [] cmd = "generate_report" -> 5

\* the run r of run_test made the step cmd, and the return code of that step
HasStep(r, cmd) == \E i \in 1..Len(r.steps) : r.steps[i].cmd = cmd
StepRc(r, cmd) ==
    r.steps[CHOOSE i \in 1..Len(r.steps) : r.steps[i].cmd = cmd].rc

\* C13 as stated: a run of run_test makes its steps in the order dependency
\* install, test run, report generation; a failed dependency install ends it
\* with that step's return code and without a test run; a test run is
\* followed by the report generation whatever its return code; and a run
\* whose dependency install succeeded exits with the return code of its
\* test-run step.
C13_TestCodeReturned ==
    \A k \in 1..Len(runs) :
        LET r == runs[k]
        IN r.script = "run_test" =>
            /\ \A i \in 1..Len(r.steps), j \in 1..Len(r.steps) :
                  i < j => Rank(r.steps[i].cmd) < Rank(r.steps[j].cmd)
            /\ (HasStep(r, "install") /\ StepRc(r, "install") # 0) =>
                  r.exit = StepRc(r, "install") /\ ~HasStep(r, "pytest")
            /\ HasStep(r, "pytest") => HasStep(r, "generate_report")
            /\ (HasStep(r, "install") /\ StepRc(r, "install") = 0) =>
                  HasStep(r, "pytest") /\ r.exit = StepRc(r, "pytest")

\* what generate_output writes for the value v found under a key: v itself,
\* and the empty value when the key is absent
PassedThrough(v, empty) == IF v.t = "absent" THEN empty ELSE v

\* C14: a run of generate_output that wrote out_path wrote the keys
\* 'summary' and 'tests' and no other, with the summary mapping and the tests
\* sequence of raw_path unchanged and in order, an empty mapping and an empty
\* sequence where raw_path lacks the key; a run with fewer than two path
\* arguments prints the usage line and exits with code 2, and neither reads
\* raw_path nor changes out_path.
C14_PassThrough ==
    /\ [](lastOutput.wrote =>
            /\ out_path.keys = <<"summary", "tests">>
            /\ out_path.summary = PassedThrough(raw_path.summary, GMapping(<< >>))
            /\ out_path.tests = PassedThrough(raw_path.tests, GSequence(<< >>)))
    /\ []((lastOutput.argc \in 1..2) =>
            /\ lastOutput.usage /\ lastOutput.exit = 2
            /\ ~lastOutput.read /\ ~lastOutput.wrote)
    /\ [][(lastOutput'.argc \in 1..2) => out_path' = out_path]_vars

\* generate_output wrote a report that has two different test records, other
\* top-level keys and no 'summary' key: the records in their order, and an
\* empty summary mapping
C14_Witness ==
    /\ lastOutput.wrote /\ lastOutput.exit = 0
    /\ raw_path.other /\ raw_path.summary = GAbsent
    /\ Len(raw_path.tests.v) = 2 /\ raw_path.tests.v[1] # raw_path.tests.v[2]
    /\ out_path.tests = raw_path.tests
    /\ out_path.summary = GMapping(<< >>)

=============================================================================
